---- MODULE Spec2Model ----
(***************************************************************************)
(* Credit lifecycle engine of the banking back-end: CreditService.Create,  *)
(* CreditService.PayCredit (src/README.md holds credit_service.go) and     *)
(* PaymentSchedulerService (src/services/payment_scheduler_service.go),    *)
(* over a relational store (PostgreSQL through GORM, READ COMMITTED, no    *)
(* SELECT ... FOR UPDATE anywhere in the code).                            *)
(*                                                                         *)
(* Money is float64 in the code; here it is an integer number of minor     *)
(* units and every float result is truncated to a whole unit.  Dates are   *)
(* day numbers counted from 1 January of EpochYear; a time.Time keeps its  *)
(* time of day through AddDate, so differences are whole days.             *)
(*                                                                         *)
(* A gorm transaction is modelled by its semantics: statements of a        *)
(* transaction read the committed state, its writes become visible at      *)
(* Commit and are discarded by Rollback.  Reads are separate steps, the    *)
(* writes of one transaction together with its Commit are one step (rows   *)
(* written by a transaction stay locked until it ends, so nothing can be   *)
(* observed between them).                                                 *)
(***************************************************************************)
EXTENDS Integers, Sequences, FiniteSets, Bags, TLC

(***************************************************************************)
(* Bounds of the model                                                     *)
(***************************************************************************)
MaxCredits == 2        \* credits ever created
MaxPayments == 4       \* payment rows ever created
MaxMonths == 2         \* months the clock may advance from the epoch
MaxEmails == 2         \* notifier calls the model records
MaxTransactions == 5   \* Transaction records after which the teller operations stop
MaxOverlaps == 1       \* calls begun while another call is in flight (concurrent runs)

EpochYear == 2025

AccountIDs == {1, 2}
BorrowerIDs == {1, 9}                \* accounts credits are asked for; 9 does not exist
UserIDs == {1, 2}
HolderOf(a) == a                    \* account a is held by user a
InitBalances == {100}
CreditAmounts == {1000}
CreditMonths == {2}
Rates == {12}                       \* GetCentralBankRate(), percent a year
PayAmounts == {400, 505, 507, 600}
BankAmounts == {1000}                \* TransactionRequest.Amount

Handlers == {"h1", "h2"}
Tickers == {"regular", "overdue"}
Procs == Handlers \cup Tickers

NULL == -1                          \* RealPayDate == nil

(***************************************************************************)
(* time.Time.AddDate and Sub on day numbers                                *)
(***************************************************************************)
IsLeap(y) == (y % 4 = 0 /\ y % 100 # 0) \/ y % 400 = 0

DaysInMonth(y, m) ==
    IF m = 2 THEN (IF IsLeap(y) THEN 29 ELSE 28)
    ELSE IF m \in {4, 6, 9, 11} THEN 30 ELSE 31

RECURSIVE DaysBeforeYear(_)
DaysBeforeYear(y) ==
    IF y <= EpochYear THEN 0
    ELSE DaysBeforeYear(y - 1) + (IF IsLeap(y - 1) THEN 366 ELSE 365)

RECURSIVE DaysBeforeMonth(_, _)
DaysBeforeMonth(y, m) ==
    IF m <= 1 THEN 0 ELSE DaysBeforeMonth(y, m - 1) + DaysInMonth(y, m - 1)

\* time.Date(y, m, d): a month beyond December and a day beyond the end of
\* the month are normalised by carrying over, as Go does.
Date(y, m, d) ==
    LET yy == y + ((m - 1) \div 12)
        mm == ((m - 1) % 12) + 1
    IN  DaysBeforeYear(yy) + DaysBeforeMonth(yy, mm) + (d - 1)

RECURSIVE YearOf(_, _)
YearOf(t, y) == IF t < DaysBeforeYear(y + 1) THEN y ELSE YearOf(t, y + 1)

RECURSIVE MonthOf(_, _, _)
MonthOf(t, y, m) ==
    IF t < DaysBeforeYear(y) + DaysBeforeMonth(y, m + 1) THEN m
    ELSE MonthOf(t, y, m + 1)

\* t.AddDate(0, months, 0)
AddDate(t, months) ==
    LET y == YearOf(t, EpochYear)
        m == MonthOf(t, y, 1)
        d == t - DaysBeforeYear(y) - DaysBeforeMonth(y, m) + 1
    IN  Date(y, m + months, d)

(***************************************************************************)
(* Amortization                                                            *)
(***************************************************************************)
RECURSIVE Pow(_, _)
Pow(b, e) == IF e <= 0 THEN 1 ELSE b * Pow(b, e - 1)

RECURSIVE Gcd(_, _)
Gcd(a, b) == IF b = 0 THEN a ELSE Gcd(b, a % b)

\* calculateAnnuityPayment: amount * (r * (1+r)^n) / ((1+r)^n - 1) with
\* r = rate / 12 / 100, computed exactly on the fraction r = rn / rd and
\* truncated.  Float division by zero does not panic: x/0 is +Inf for x > 0
\* and 0/0 is NaN; kind tells which.
calculateAnnuityPayment(amount, rate, months) ==
    LET g  == Gcd(rate, 1200)
        rn == rate \div g
        rd == 1200 \div g
        up == Pow(rd + rn, months)
        dn == Pow(rd, months)
    IN  IF up - dn = 0
        THEN [kind |-> IF rn = 0 THEN "NaN" ELSE "Inf", val |-> 0]
        ELSE [kind |-> "num",
              val  |-> (amount * rn * up) \div (rd * (up - dn))]

\* months := int(credit.EndDate.Sub(credit.StartDate).Hours() / 24 / 30)
ScheduleMonths(credit) == (credit.EndDate - credit.StartDate) \div 30

\* The rate limiter: globalLimiter = utils.NewRateLimiter(100, time.Minute),
\* scaled down; the keys are client addresses
Limit == 2
Window == 2
LimiterKeys == {"ip1", "ip2"}

(***************************************************************************)
(* State                                                                   *)
(***************************************************************************)
VARIABLES
    accounts,       \* bank_accounts: id -> [Balance, HolderID]
    credits,        \* credits: sequence of rows, the id is the index
    payments,       \* payments: sequence of rows, the id is the index
    transactions,   \* transactions: bag of [AccountID, Amount, Type]
    now,            \* time.Now(), a day number
    emails,         \* calls of SendCreditPaidNotification: sequence of credit ids
    debits,         \* history: payment id -> committed debits made for it
    overlaps,       \* history: calls begun while another call was in flight
    pc,             \* where each goroutine stands
    loc,            \* its local variables (dto and the rows it loaded)
    res,            \* the call that returned last and its result, until the next call
    metrics,        \* utils.Metrics: mu (who holds it) and the counters
    limiter,        \* utils.RateLimiter: requests (key -> timestamps), limit, window
    allowed,        \* history: key -> times at which Allow returned true since Reset
    cards           \* cards: sequence of rows

dbvars == <<accounts, credits, payments, transactions>>
svcvars == <<metrics, limiter, allowed, cards>>
vars == <<accounts, credits, payments, transactions, now, emails,
          debits, overlaps, pc, loc, res, metrics, limiter, allowed, cards>>

NoLoc == [op |-> "none"]

\* GetMetrics(): &Metrics{ErrorTypes: make(map[string]int64)}, the mutex unlocked
NewMetrics ==
    [mu |-> "unlocked", TotalRequests |-> 0, FailedRequests |-> 0,
     TotalCards |-> 0, ActiveCards |-> 0, BlockedCards |-> 0, ExpiredCards |-> 0,
     ErrorCount |-> 0, CriticalErrors |-> 0]

\* NewRateLimiter(limit, window): an empty requests map
NewRateLimiter(limit, window) ==
    [requests |-> [k \in {} |-> <<>>], limit |-> limit, window |-> window]

\* The services as they are constructed
InitServices ==
    /\ metrics = NewMetrics
    /\ limiter = NewRateLimiter(Limit, Window)
    /\ allowed = [key \in LimiterKeys |-> <<>>]
    /\ cards = <<>>
NoRes == [op |-> "none", r |-> "none", txOpen |-> FALSE, notifyErr |-> FALSE]

Init ==
    /\ accounts \in [AccountIDs -> [Balance : InitBalances, HolderID : UserIDs]]
    /\ \A a \in AccountIDs : accounts[a].HolderID = HolderOf(a)
    /\ credits = <<>>
    /\ payments = <<>>
    /\ transactions = EmptyBag
    /\ now = Date(EpochYear, 3, 1)
    /\ emails = <<>>
    /\ debits = <<>>
    /\ overlaps = 0
    /\ pc = [p \in Procs |-> "idle"]
    /\ loc = [p \in Procs |-> NoLoc]
    /\ res = NoRes
    /\ InitServices

Tx(a, amt, type) == [AccountID |-> a, Amount |-> amt, Type |-> type]

\* The call of p returns r; txOpen: it neither committed nor rolled back the
\* transaction it began; notifyErr: the notifier it called returned an error.
ReturnWith(p, op, r, txOpen, notifyErr) ==
    /\ UNCHANGED <<overlaps, svcvars>>
    /\ pc' = [pc EXCEPT ![p] = "idle"]
    /\ loc' = [loc EXCEPT ![p] = NoLoc]
    /\ res' = [op |-> op, r |-> r, txOpen |-> txOpen, notifyErr |-> notifyErr]

Return(p, op, r) == ReturnWith(p, op, r, FALSE, FALSE)

Goto(p, label, l) ==
    /\ overlaps' = IF pc[p] = "idle" /\ \E q \in Procs : pc[q] # "idle"
                   THEN overlaps + 1 ELSE overlaps
    /\ pc' = [pc EXCEPT ![p] = label]
    /\ loc' = [loc EXCEPT ![p] = l]
    /\ res' = NoRes
    /\ UNCHANGED svcvars

(***************************************************************************)
(* The store                                                               *)
(***************************************************************************)
\* The committed rows, as one value a transaction works on.
DB == [accounts |-> accounts, credits |-> credits, payments |-> payments,
       transactions |-> transactions]

\* tx.Commit(): the transaction's writes become the committed rows.
Commit(db) ==
    /\ accounts' = db.accounts
    /\ credits' = db.credits
    /\ payments' = db.payments
    /\ transactions' = db.transactions

\* A failure path that leaves the writes made so far in place.
KeepWrites(db) == Commit(db)

\* tx.Rollback(), and a Commit that returns an error: the writes are dropped.
Rollback(db) == UNCHANGED dbvars

\* tx.Save(&account): UPDATE of the whole row from the struct in memory.
SaveAccount(db, id, row) == [db EXCEPT !.accounts[id] = row]
SaveCredit(db, id, row) == [db EXCEPT !.credits[id] = row]
SavePayment(db, id, row) == [db EXCEPT !.payments[id] = row]
CreateTransaction(db, t) ==
    [db EXCEPT !.transactions = db.transactions (+) SetToBag({t})]

ActiveCredits(a) ==
    {c \in DOMAIN credits : credits[c].AccountID = a /\ credits[c].Status = "ACTIVE"}

InFlight(op) == Cardinality({p \in Procs : loc[p].op = op})

(***************************************************************************)
(* CreditService.Create                                                    *)
(***************************************************************************)
\* Validation, GetCentralBankRate, Begin and the account lookup.
CreateStart(p, dto) ==
    /\ pc[p] = "idle"
    /\ Len(credits) + InFlight("create") < MaxCredits
    /\ UNCHANGED <<dbvars, now, emails, debits>>
    /\ \E rateOk \in BOOLEAN, rate \in Rates :
        IF ~rateOk
        THEN Return(p, "create", "RateUnavailable")
        ELSE IF dto.AccountID \notin DOMAIN accounts
        THEN Return(p, "create", "NotFound")
        ELSE IF accounts[dto.AccountID].HolderID # dto.UserID
        THEN \* returns "Access denied" without tx.Rollback()
             ReturnWith(p, "create", "Forbidden", TRUE, FALSE)
        ELSE Goto(p, "create_check",
                  [op |-> "create", dto |-> dto, rate |-> rate,
                   account |-> accounts[dto.AccountID]])

\* Create without the lookup of an ACTIVE credit of the account.
CreateSkipActiveCheck(p) ==
    /\ pc[p] = "create_check"
    /\ UNCHANGED <<dbvars, now, emails, debits>>
    /\ Goto(p, "create_write", loc[p])

\* tx.Where("account_id = ? AND status = ?", ..., ACTIVE).First(&existingCredit)
CreateCheckActive(p) ==
    /\ pc[p] = "create_check"
    /\ UNCHANGED <<dbvars, now, emails, debits>>
    /\ IF ActiveCredits(loc[p].dto.AccountID) # {}
       THEN Return(p, "create", "Conflict")
       ELSE Goto(p, "create_write", loc[p])

\* generatePaymentSchedule with the pay dates counted from the wall clock and
\* from the loop index itself (payment i due at now + i months).
generatePaymentScheduleFromNow(credit, creditID) ==
    LET months == ScheduleMonths(credit)
        annuityPayment == calculateAnnuityPayment(credit.Amount, credit.Rate, months)
    IN  [i \in 1..months |->
            [CreditID    |-> creditID,
             PayDate     |-> AddDate(now, i - 1),
             Amount      |-> annuityPayment.val,
             InitAmount  |-> annuityPayment.val,
             IsOverdue   |-> FALSE,
             Status      |-> "PLANNED",
             RealPayDate |-> NULL]]

\* generatePaymentSchedule: one PLANNED payment a month, each of the annuity
\* amount, payment i (from 0) due at StartDate.AddDate(0, i+1, 0).
generatePaymentSchedule(credit, creditID) ==
    LET months == ScheduleMonths(credit)
        annuityPayment == calculateAnnuityPayment(credit.Amount, credit.Rate, months)
    IN  [i \in 1..months |->
            [CreditID    |-> creditID,
             PayDate     |-> AddDate(credit.StartDate, i),
             Amount      |-> annuityPayment.val,
             InitAmount  |-> annuityPayment.val,
             IsOverdue   |-> FALSE,
             Status      |-> "PLANNED",
             RealPayDate |-> NULL]]

NewCredit(l) ==
    [Rate      |-> l.rate,
     AccountID |-> l.dto.AccountID,
     Amount    |-> l.dto.Amount,
     Status    |-> "ACTIVE",
     StartDate |-> now,
     EndDate   |-> AddDate(now, l.dto.Months)]

\* The rows after the first n writes of Create: 1 the credit, 2 the first
\* payment, 3 the other payments, 4 the account, 5 the Transaction record.
CreateStatements(db, l, n) ==
    LET credit   == NewCredit(l)
        creditID == Len(db.credits) + 1
        schedule == generatePaymentSchedule(credit, creditID)
        s1 == IF n >= 1 THEN [db EXCEPT !.credits = Append(db.credits, credit)] ELSE db
        s2 == IF n >= 2 /\ Len(schedule) >= 1
              THEN [s1 EXCEPT !.payments = Append(s1.payments, schedule[1])] ELSE s1
        s3 == IF n >= 3 /\ Len(schedule) >= 2
              THEN [s2 EXCEPT !.payments = s2.payments \o Tail(schedule)] ELSE s2
        s4 == IF n >= 4
              THEN SaveAccount(s3, l.dto.AccountID,
                       [l.account EXCEPT !.Balance = l.account.Balance + l.dto.Amount])
              ELSE s3
        s5 == IF n >= 5
              THEN CreateTransaction(s4, Tx(l.dto.AccountID, l.dto.Amount, "DEPOSIT"))
              ELSE s4
    IN  s5

\* The inserts, the balance update and Commit; failAt = k in 1..5 is an error
\* of write k, failAt = 6 an error of Commit, failAt = 0 no error.
CreateWrite(p) ==
    /\ pc[p] = "create_write"
    /\ UNCHANGED <<now, emails>>
    /\ \E failAt \in 0..6 :
        LET l  == loc[p]
            n  == IF failAt = 0 THEN 5 ELSE failAt - 1
            db == CreateStatements(DB, l, n)
        IN  IF failAt = 0
            THEN /\ Len(db.payments) <= MaxPayments
                 /\ Commit(db)
                 /\ debits' = debits \o [i \in 1..(Len(db.payments) - Len(payments)) |-> 0]
                 /\ Return(p, "create", "ok")
            ELSE /\ Rollback(db)
                 /\ UNCHANGED debits
                 /\ Return(p, "create", IF failAt = 6 THEN "CommitFailure" ELSE "StorageFailure")

(***************************************************************************)
(* CreditService.PayCredit                                                 *)
(***************************************************************************)
\* PayCredit without the check of the credit's status.
PayStartAnyStatus(p, dto) ==
    /\ pc[p] = "idle"
    /\ UNCHANGED <<dbvars, now, emails, debits>>
    /\ IF dto.CreditID \notin DOMAIN credits
       THEN Return(p, "pay", "NotFound")
       ELSE IF credits[dto.CreditID].AccountID # dto.AccountID
       THEN Return(p, "pay", "Mismatch")
       ELSE Goto(p, "pay_account",
                 [op |-> "pay", dto |-> dto, credit |-> credits[dto.CreditID]])

\* Validation, Begin and the credit lookup with its status and account checks.
PayStart(p, dto) ==
    /\ pc[p] = "idle"
    /\ UNCHANGED <<dbvars, now, emails, debits>>
    /\ IF dto.CreditID \notin DOMAIN credits
       THEN Return(p, "pay", "NotFound")
       ELSE IF credits[dto.CreditID].Status # "ACTIVE"
       THEN Return(p, "pay", "Conflict")
       ELSE IF credits[dto.CreditID].AccountID # dto.AccountID
       THEN Return(p, "pay", "Mismatch")
       ELSE Goto(p, "pay_account",
                 [op |-> "pay", dto |-> dto, credit |-> credits[dto.CreditID]])

\* PayCredit without the funds check.
PayLoadAccountNoFundsCheck(p) ==
    /\ pc[p] = "pay_account"
    /\ UNCHANGED <<dbvars, now, emails, debits>>
    /\ Goto(p, "pay_next",
            [op |-> "pay", dto |-> loc[p].dto, credit |-> loc[p].credit,
             account |-> accounts[loc[p].dto.AccountID]])

\* tx.First(&account, dto.AccountID) and the funds check.
PayLoadAccount(p) ==
    /\ pc[p] = "pay_account"
    /\ UNCHANGED <<dbvars, now, emails, debits>>
    /\ LET l == loc[p]
           account == accounts[l.dto.AccountID]
       IN  IF account.Balance < l.dto.Amount
           THEN Return(p, "pay", "InsufficientFunds")
           ELSE Goto(p, "pay_next",
                     [op |-> "pay", dto |-> l.dto, credit |-> l.credit,
                      account |-> account])

PlannedPayments(rows, creditID) ==
    {i \in DOMAIN rows : rows[i].CreditID = creditID /\ rows[i].Status = "PLANNED"}

\* The same query without Order("pay_date ASC"): any PLANNED payment.
AnyPlanned(creditID) == PlannedPayments(payments, creditID)

\* Where("credit_id = ? AND status = ?", ..., PLANNED).Order("pay_date ASC").First
EarliestPlanned(creditID) ==
    LET S == PlannedPayments(payments, creditID)
    IN  {i \in S : \A j \in S : payments[i].PayDate <= payments[j].PayDate}

\* PayCredit without the check of the amount against the payment due.
PayLoadNextAnyAmount(p) ==
    /\ pc[p] = "pay_next"
    /\ UNCHANGED <<dbvars, now, emails, debits>>
    /\ LET l == loc[p]
       IN  IF EarliestPlanned(l.dto.CreditID) = {}
           THEN Return(p, "pay", "NoPlannedPayment")
           ELSE \E id \in EarliestPlanned(l.dto.CreditID) :
                Goto(p, "pay_write",
                     [op |-> "pay", dto |-> l.dto, credit |-> l.credit,
                      account |-> l.account, nextPaymentID |-> id,
                      nextPayment |-> payments[id]])

PayLoadNext(p) ==
    /\ pc[p] = "pay_next"
    /\ UNCHANGED <<dbvars, now, emails, debits>>
    /\ LET l == loc[p]
       IN  IF EarliestPlanned(l.dto.CreditID) = {}
           THEN Return(p, "pay", "NoPlannedPayment")
           ELSE \E id \in EarliestPlanned(l.dto.CreditID) :
                IF l.dto.Amount < payments[id].Amount
                THEN Return(p, "pay", "AmountTooLow")
                ELSE Goto(p, "pay_write",
                          [op |-> "pay", dto |-> l.dto, credit |-> l.credit,
                           account |-> l.account, nextPaymentID |-> id,
                           nextPayment |-> payments[id]])

\* PayCredit's writes recording the amount paid as the original amount too.
PayStatementsOverwriteInit(db, l, n) ==
    LET s1 == IF n >= 1
              THEN SavePayment(db, l.nextPaymentID,
                       [l.nextPayment EXCEPT !.Status = "PAID",
                                             !.RealPayDate = now,
                                             !.Amount = l.dto.Amount,
                                             !.InitAmount = l.dto.Amount])
              ELSE db
        s2 == IF n >= 2
              THEN SaveAccount(s1, l.dto.AccountID,
                       [l.account EXCEPT !.Balance = l.account.Balance - l.dto.Amount])
              ELSE s1
        s3 == IF n >= 3
              THEN CreateTransaction(s2, Tx(l.dto.AccountID, -l.dto.Amount, "WITHDRAW"))
              ELSE s2
    IN  s3

\* The rows after the first n writes of PayCredit: 1 the payment, 2 the
\* account, 3 the Transaction record.
PayStatements(db, l, n) ==
    LET s1 == IF n >= 1
              THEN SavePayment(db, l.nextPaymentID,
                       [l.nextPayment EXCEPT !.Status = "PAID",
                                             !.RealPayDate = now,
                                             !.Amount = l.dto.Amount])
              ELSE db
        s2 == IF n >= 2
              THEN SaveAccount(s1, l.dto.AccountID,
                       [l.account EXCEPT !.Balance = l.account.Balance - l.dto.Amount])
              ELSE s1
        s3 == IF n >= 3
              THEN CreateTransaction(s2, Tx(l.dto.AccountID, -l.dto.Amount, "WITHDRAW"))
              ELSE s2
    IN  s3

\* The payoff test taken one payment too early.
ClosesCreditEarly(remainingPayments) == remainingPayments <= 1

\* "if remainingPayments == 0": the credit is closed
ClosesCredit(remainingPayments) == remainingPayments = 0

\* PayCredit treating an error of the notifier as an error of the call: it
\* rolls back and returns the error.
PayWriteNotifyAborts(p) ==
    /\ pc[p] = "pay_write"
    /\ UNCHANGED now
    /\ \E failAt \in 0..6, notifyErr \in BOOLEAN :
        LET l  == loc[p]
            n  == IF failAt \in 1..3 THEN failAt - 1 ELSE 3
            s3 == PayStatements(DB, l, n)
            remainingPayments == Cardinality(PlannedPayments(s3.payments, l.dto.CreditID))
            closes == failAt \notin 1..4 /\ ClosesCredit(remainingPayments)
            db == IF closes /\ failAt # 5
                  THEN SaveCredit(s3, l.dto.CreditID, [l.credit EXCEPT !.Status = "PAID"])
                  ELSE s3
            notified == closes /\ failAt # 5
        IN  /\ failAt = 5 => ClosesCredit(remainingPayments)
            /\ notified => Len(emails) < MaxEmails
            /\ notifyErr => notified
            /\ emails' = IF notified
                         THEN Append(emails, l.dto.CreditID)
                         ELSE emails
            /\ IF failAt = 0 /\ ~notifyErr
               THEN /\ Commit(db)
                    /\ debits' = [debits EXCEPT ![l.nextPaymentID] = @ + 1]
                    /\ ReturnWith(p, "pay", "ok", FALSE, notifyErr)
               ELSE /\ Rollback(db)
                    /\ UNCHANGED debits
                    /\ ReturnWith(p, "pay",
                           IF failAt = 6 THEN "CommitFailure" ELSE "StorageFailure",
                           FALSE, notifyErr)

\* The writes, the payoff check, the notification and Commit.  failAt: 1..3 an
\* error of write k, 4 of the count, 5 of Save(&credit), 6 of Commit, 0 none.
PayWrite(p) ==
    /\ pc[p] = "pay_write"
    /\ UNCHANGED now
    /\ \E failAt \in 0..6, notifyErr \in BOOLEAN :
        LET l  == loc[p]
            n  == IF failAt \in 1..3 THEN failAt - 1 ELSE 3
            s3 == PayStatements(DB, l, n)
            remainingPayments == Cardinality(PlannedPayments(s3.payments, l.dto.CreditID))
            closes == failAt \notin 1..4 /\ ClosesCredit(remainingPayments)
            db == IF closes /\ failAt # 5
                  THEN SaveCredit(s3, l.dto.CreditID, [l.credit EXCEPT !.Status = "PAID"])
                  ELSE s3
            notified == closes /\ failAt # 5
        IN  /\ failAt = 5 => ClosesCredit(remainingPayments)
            /\ notified => Len(emails) < MaxEmails
            /\ notifyErr => notified
            /\ emails' = IF notified
                         THEN Append(emails, l.dto.CreditID)
                         ELSE emails
            /\ IF failAt = 0
               THEN /\ Commit(db)
                    /\ debits' = [debits EXCEPT ![l.nextPaymentID] = @ + 1]
                    /\ ReturnWith(p, "pay", "ok", FALSE, notifyErr)
               ELSE /\ Rollback(db)
                    /\ UNCHANGED debits
                    /\ ReturnWith(p, "pay",
                           IF failAt = 6 THEN "CommitFailure" ELSE "StorageFailure",
                           FALSE, notifyErr)

(***************************************************************************)
(* PaymentSchedulerService                                                 *)
(***************************************************************************)
\* A payment as Find loads it with Preload("Credit") and
\* Preload("Credit.Account"): every payment gets copies of its own.
Preload(id) ==
    [ID      |-> id,
     Row     |-> payments[id],
     Credit  |-> credits[payments[id].CreditID],
     Account |-> accounts[credits[payments[id].CreditID].AccountID]]

\* The query of processPayments without the condition on pay_date.
DuePaymentsAnyDate == {i \in DOMAIN payments : payments[i].Status = "PLANNED"}

\* Where("pay_date <= ? AND status = ?", time.Now(), PLANNED)
DuePayments ==
    {i \in DOMAIN payments : payments[i].PayDate <= now /\ payments[i].Status = "PLANNED"}

\* Where("is_overdue = ? AND status = ?", true, OVERDUE)
OverduePayments ==
    {i \in DOMAIN payments : payments[i].IsOverdue /\ payments[i].Status = "OVERDUE"}

\* A penalty of one percent instead of ten.
PenaltyOnePercent(amount) == (amount * 101) \div 100

\* payment.Amount *= 1.1
Penalty(amount) == (amount * 11) \div 10

\* "if payment.Credit.Account.Balance < payment.Amount"
Insufficient(e) == e.Account.Balance < e.Row.Amount

\* processPayment writes unless "if payment.IsOverdue { return nil }" is taken
NeedsChange(e) == ~(Insufficient(e) /\ e.Row.IsOverdue)

\* processPayment without "if payment.IsOverdue { return nil }": a payment
\* that is overdue already is escalated again.
processPaymentCompounding(db, e) ==
    IF Insufficient(e)
    THEN SaveCredit(
             SavePayment(db, e.ID,
                 [e.Row EXCEPT !.IsOverdue = TRUE,
                               !.Status = "OVERDUE",
                               !.Amount = Penalty(e.Row.Amount)]),
             e.Row.CreditID, [e.Credit EXCEPT !.Status = "OVERDUE"])
    ELSE CreateTransaction(
             SavePayment(
                 SaveAccount(db, e.Credit.AccountID,
                     [e.Account EXCEPT !.Balance = e.Account.Balance - e.Row.Amount]),
                 e.ID, [e.Row EXCEPT !.Status = "PAID", !.RealPayDate = now]),
             Tx(e.Credit.AccountID, -e.Row.Amount, "WITHDRAW"))

\* processPayment with a payoff check: a payment that is applied and leaves
\* no payment of the credit unpaid closes the credit.
processPaymentClosesCredit(db, e) ==
    IF Insufficient(e)
    THEN IF e.Row.IsOverdue
         THEN db
         ELSE SaveCredit(
                  SavePayment(db, e.ID,
                      [e.Row EXCEPT !.IsOverdue = TRUE,
                                    !.Status = "OVERDUE",
                                    !.Amount = Penalty(e.Row.Amount)]),
                  e.Row.CreditID, [e.Credit EXCEPT !.Status = "OVERDUE"])
    ELSE LET d == CreateTransaction(
                      SavePayment(
                          SaveAccount(db, e.Credit.AccountID,
                              [e.Account EXCEPT !.Balance = e.Account.Balance - e.Row.Amount]),
                          e.ID, [e.Row EXCEPT !.Status = "PAID", !.RealPayDate = now]),
                      Tx(e.Credit.AccountID, -e.Row.Amount, "WITHDRAW"))
         IN  IF \A j \in DOMAIN d.payments :
                   d.payments[j].CreditID = e.Row.CreditID => d.payments[j].Status = "PAID"
             THEN SaveCredit(d, e.Row.CreditID, [e.Credit EXCEPT !.Status = "PAID"])
             ELSE d

\* processPayment whose escalation marks the payment and leaves the credit
\* as it was.
processPaymentKeepsCredit(db, e) ==
    IF Insufficient(e)
    THEN IF e.Row.IsOverdue
         THEN db
         ELSE SavePayment(db, e.ID,
                  [e.Row EXCEPT !.IsOverdue = TRUE,
                                !.Status = "OVERDUE",
                                !.Amount = Penalty(e.Row.Amount)])
    ELSE CreateTransaction(
             SavePayment(
                 SaveAccount(db, e.Credit.AccountID,
                     [e.Account EXCEPT !.Balance = e.Account.Balance - e.Row.Amount]),
                 e.ID, [e.Row EXCEPT !.Status = "PAID", !.RealPayDate = now]),
             Tx(e.Credit.AccountID, -e.Row.Amount, "WITHDRAW"))

\* processPayment on the copy e the batch holds
processPayment(db, e) ==
    IF Insufficient(e)
    THEN IF e.Row.IsOverdue
         THEN db
         ELSE SaveCredit(
                  SavePayment(db, e.ID,
                      [e.Row EXCEPT !.IsOverdue = TRUE,
                                    !.Status = "OVERDUE",
                                    !.Amount = Penalty(e.Row.Amount)]),
                  e.Row.CreditID, [e.Credit EXCEPT !.Status = "OVERDUE"])
    ELSE CreateTransaction(
             SavePayment(
                 SaveAccount(db, e.Credit.AccountID,
                     [e.Account EXCEPT !.Balance = e.Account.Balance - e.Row.Amount]),
                 e.ID, [e.Row EXCEPT !.Status = "PAID", !.RealPayDate = now]),
             Tx(e.Credit.AccountID, -e.Row.Amount, "WITHDRAW"))

\* "for _, payment := range payments": the first n payments of the batch
RECURSIVE ProcessBatch(_, _, _)
ProcessBatch(db, batch, n) ==
    IF n = 0 THEN db
    ELSE processPayment(ProcessBatch(db, batch, n - 1), batch[n])

\* The orders in which Find (no ORDER BY) may return the rows ids
RECURSIVE Orders(_)
Orders(ids) ==
    IF ids = {} THEN {<<>>}
    ELSE UNION {{Append(o, i) : o \in Orders(ids \ {i})} : i \in ids}

\* processPayments up to the loop: Begin and the query
DueLoad(p) ==
    /\ p = "regular"
    /\ pc[p] = "idle"
    /\ UNCHANGED <<dbvars, now, emails, debits>>
    /\ Goto(p, "tick_write", [op |-> "tick", batch |-> [i \in DuePayments |-> Preload(i)]])

\* processOverduePayments up to the loop
OverdueLoad(p) ==
    /\ p = "overdue"
    /\ pc[p] = "idle"
    /\ UNCHANGED <<dbvars, now, emails, debits>>
    /\ Goto(p, "tick_write", [op |-> "overdue_tick", batch |-> [i \in OverduePayments |-> Preload(i)]])

\* What a tick does when processPayment returns an error for payment k of a
\* batch of n, or Commit does (k = n + 1): "tx.Rollback(); return err".
TickFailure(p, db, k, n) ==
    /\ Rollback(db)
    /\ UNCHANGED debits
    /\ Return(p, loc[p].op, IF k = n + 1 THEN "CommitFailure" ELSE "StorageFailure")

\* The loop over the batch and Commit.  failAt = k in 1..Len(batch) is an
\* error of a Save of payment k (a payment that is skipped saves nothing and
\* cannot fail), Len(batch)+1 an error of Commit, 0 none.
TickWrite(p) ==
    /\ pc[p] = "tick_write"
    /\ UNCHANGED <<now, emails>>
    /\ \E order \in Orders(DOMAIN loc[p].batch), failAt \in 0..(Cardinality(DOMAIN loc[p].batch) + 1) :
        LET batch == [k \in DOMAIN order |-> loc[p].batch[order[k]]]
            n  == IF failAt = 0 THEN Len(batch) ELSE failAt - 1
            db == ProcessBatch(DB, batch, n)
        IN  IF failAt = 0
            THEN /\ Commit(db)
                 /\ debits' = [i \in DOMAIN debits |->
                        debits[i] + Cardinality({k \in DOMAIN batch :
                            batch[k].ID = i /\ ~Insufficient(batch[k])})]
                 /\ Return(p, loc[p].op, "ok")
            ELSE /\ failAt <= Len(batch) => NeedsChange(batch[failAt])
                 /\ TickFailure(p, db, failAt, Len(batch))

\* Time passes
AdvanceTime ==
    /\ now < AddDate(Date(EpochYear, 3, 1), MaxMonths)
    /\ now' = AddDate(now, 1)
    /\ UNCHANGED <<dbvars, emails, debits, overlaps, pc, loc, res, svcvars>>

(***************************************************************************)
(* Specifications                                                          *)
(***************************************************************************)
CreateDTOs ==
    [AccountID : BorrowerIDs, UserID : UserIDs,
     Amount : CreditAmounts, Months : CreditMonths]

PayDTOs ==
    [CreditID : 1..(Len(credits) + 1), AccountID : AccountIDs, Amount : PayAmounts]

Idle == \A q \in Procs : pc[q] = "idle"

\* One operation at a time: a call starts when no other is in flight.
Next ==
    \/ \E dto \in CreateDTOs : Idle /\ CreateStart("h1", dto)
    \/ \E dto \in PayDTOs : Idle /\ PayStart("h1", dto)
    \/ Idle /\ DueLoad("regular")
    \/ Idle /\ OverdueLoad("overdue")
    \/ \E p \in Procs : CreateCheckActive(p)
    \/ \E p \in Procs : CreateWrite(p)
    \/ \E p \in Procs : PayLoadAccount(p)
    \/ \E p \in Procs : PayLoadNext(p)
    \/ \E p \in Procs : PayWrite(p)
    \/ \E p \in Procs : TickWrite(p)
    \/ Idle /\ AdvanceTime

Spec == Init /\ [][Next]_vars

\* Request handlers and the two ticker goroutines run concurrently; the runs
\* checked are those in which at most two calls overlap, and the clock (a
\* month a step) moves between calls.
Overlap ==
    /\ Cardinality({q \in Procs : pc[q] # "idle"}) < 2
    /\ (\E q \in Procs : pc[q] # "idle") => overlaps < MaxOverlaps

\* The handlers are interchangeable: a request takes the first idle one.
FirstIdle(p) == p = "h1" \/ pc["h1"] # "idle"

NextConc ==
    \/ \E p \in Handlers, dto \in CreateDTOs : Overlap /\ FirstIdle(p) /\ CreateStart(p, dto)
    \/ \E p \in Handlers, dto \in PayDTOs : Overlap /\ FirstIdle(p) /\ PayStart(p, dto)
    \/ Overlap /\ DueLoad("regular")
    \/ Overlap /\ OverdueLoad("overdue")
    \/ \E p \in Procs : CreateCheckActive(p)
    \/ \E p \in Procs : CreateWrite(p)
    \/ \E p \in Procs : PayLoadAccount(p)
    \/ \E p \in Procs : PayLoadNext(p)
    \/ \E p \in Procs : PayWrite(p)
    \/ \E p \in Procs : TickWrite(p)
    \/ Idle /\ AdvanceTime

SpecConc == Init /\ [][NextConc]_vars

(***************************************************************************)
(* Payments racing with payments and ticks                                 *)
(***************************************************************************)
MaxRacing == 2         \* calls begun while another call is in flight (racing runs)

\* At most two calls are in flight at a time, and at most MaxRacing calls
\* ever begin while another is in flight.
Racing ==
    /\ Cardinality({q \in Procs : pc[q] # "idle"}) < 2
    /\ (\E q \in Procs : pc[q] # "idle") => overlaps < MaxRacing

\* One credit is created, alone; PayCredit calls and the ticks of the
\* scheduler run concurrently on it.
NextRace ==
    \/ \E dto \in CreateDTOs : Idle /\ credits = <<>> /\ CreateStart("h1", dto)
    \/ \E p \in Handlers, dto \in PayDTOs : Racing /\ FirstIdle(p) /\ PayStart(p, dto)
    \/ Racing /\ DueLoad("regular")
    \/ Racing /\ OverdueLoad("overdue")
    \/ \E p \in Procs : CreateCheckActive(p)
    \/ \E p \in Procs : CreateWrite(p)
    \/ \E p \in Procs : PayLoadAccount(p)
    \/ \E p \in Procs : PayLoadNext(p)
    \/ \E p \in Procs : PayWrite(p)
    \/ \E p \in Procs : TickWrite(p)
    \/ Idle /\ AdvanceTime

SpecRace == Init /\ [][NextRace]_vars

(***************************************************************************)
(* BankService.Deposit and BankService.Withdraw                            *)
(***************************************************************************)
BankRequests == [AccountID : BorrowerIDs, Amount : BankAmounts]

\* Deposit of a request of type DEPOSIT, as one step: it runs alone.
Deposit(p, request) ==
    /\ pc[p] = "idle"
    /\ BagCardinality(transactions) < MaxTransactions
    /\ UNCHANGED <<now, emails, debits>>
    /\ \E fail \in BOOLEAN :
        LET a == request.AccountID
        IN  IF a \notin DOMAIN accounts
            THEN UNCHANGED dbvars /\ Return(p, "deposit", "NotFound")
            ELSE IF fail
            THEN Rollback(DB) /\ Return(p, "deposit", "StorageFailure")
            ELSE /\ Commit(CreateTransaction(
                        SaveAccount(DB, a, [accounts[a] EXCEPT
                                               !.Balance = @ + request.Amount]),
                        Tx(a, request.Amount, "DEPOSIT")))
                 /\ Return(p, "deposit", "ok")

\* Withdraw of a request of type WITHDRAW; its Transaction record holds the
\* amount as given, not negated.
Withdraw(p, request) ==
    /\ pc[p] = "idle"
    /\ BagCardinality(transactions) < MaxTransactions
    /\ UNCHANGED <<now, emails, debits>>
    /\ \E fail \in BOOLEAN :
        LET a == request.AccountID
        IN  IF a \notin DOMAIN accounts
            THEN UNCHANGED dbvars /\ Return(p, "withdraw", "NotFound")
            ELSE IF accounts[a].Balance < request.Amount
            THEN Rollback(DB) /\ Return(p, "withdraw", "InsufficientFunds")
            ELSE IF fail
            THEN Rollback(DB) /\ Return(p, "withdraw", "StorageFailure")
            ELSE /\ Commit(CreateTransaction(
                        SaveAccount(DB, a, [accounts[a] EXCEPT
                                               !.Balance = @ - request.Amount]),
                        Tx(a, request.Amount, "WITHDRAW")))
                 /\ Return(p, "withdraw", "ok")

(***************************************************************************)
(* BankService.Transfer                                                    *)
(***************************************************************************)
TransferIDs == {1, 2, 9}             \* TransferRequest.SourceID, DestinationID; 9 does not exist
TransferRequests ==
    [SourceID : TransferIDs, DestinationID : TransferIDs, Amount : BankAmounts]

\* Transfer, as one step: it runs alone.  s.Withdraw and s.Deposit are called
\* with type TRANSFER: each begins a transaction of its own on s.db, changes
\* the balance, writes no Transaction record (the type is not its own) and
\* commits.  The transaction tx of Transfer holds the two TRANSFER records
\* only.  failAt: 1 an error inside Withdraw, 2 inside Deposit, 3 of a
\* tx.Create, 4 of tx.Commit, 0 none.
Transfer(p, request) ==
    /\ pc[p] = "idle"
    /\ BagCardinality(transactions) < MaxTransactions
    /\ UNCHANGED <<now, emails, debits>>
    /\ \E failAt \in 0..4 :
        LET src == request.SourceID
            dst == request.DestinationID
            withdrawn == SaveAccount(DB, src, [accounts[src] EXCEPT
                                                  !.Balance = @ - request.Amount])
            deposited == SaveAccount(withdrawn, dst, [withdrawn.accounts[dst] EXCEPT
                                                         !.Balance = @ + request.Amount])
            recorded  == CreateTransaction(
                             CreateTransaction(deposited, Tx(src, request.Amount, "TRANSFER")),
                             Tx(dst, request.Amount, "TRANSFER"))
        IN  IF src = dst
            THEN UNCHANGED dbvars /\ Return(p, "transfer", "SameAccount")
            ELSE IF src \notin DOMAIN accounts
            THEN Rollback(DB) /\ Return(p, "transfer", "NotFound")
            ELSE IF accounts[src].Balance < request.Amount
            THEN Rollback(DB) /\ Return(p, "transfer", "InsufficientFunds")
            ELSE IF failAt = 1
            THEN Rollback(DB) /\ Return(p, "transfer", "StorageFailure")
            ELSE IF dst \notin DOMAIN accounts
            THEN Commit(withdrawn) /\ Return(p, "transfer", "NotFound")
            ELSE IF failAt = 2
            THEN Commit(withdrawn) /\ Return(p, "transfer", "StorageFailure")
            ELSE IF failAt = 3
            THEN Commit(deposited) /\ Return(p, "transfer", "StorageFailure")
            ELSE IF failAt = 4
            THEN Commit(deposited) /\ Return(p, "transfer", "CommitFailure")
            ELSE Commit(recorded) /\ Return(p, "transfer", "ok")

\* The teller operations on the accounts, one at a time.
NextTransfer ==
    \/ \E request \in BankRequests : Deposit("h1", request)
    \/ \E request \in BankRequests : Withdraw("h1", request)
    \/ \E request \in TransferRequests : Transfer("h1", request)

SpecTransfer == Init /\ [][NextTransfer]_vars

\* Credits that are left to the scheduler, one operation at a time, on
\* accounts that are also paid into and drawn from.
NextBank ==
    \/ \E dto \in CreateDTOs : Idle /\ CreateStart("h1", dto)
    \/ Idle /\ DueLoad("regular")
    \/ Idle /\ OverdueLoad("overdue")
    \/ \E p \in Procs : CreateCheckActive(p)
    \/ \E p \in Procs : CreateWrite(p)
    \/ \E p \in Procs : TickWrite(p)
    \/ Idle /\ AdvanceTime
    \/ \E request \in BankRequests : Idle /\ Deposit("h1", request)
    \/ \E request \in BankRequests : Idle /\ Withdraw("h1", request)

SpecBank == Init /\ [][NextBank]_vars

(***************************************************************************)
(* generatePaymentSchedule as a function of the credit                     *)
(***************************************************************************)
MaxStartDay == 59      \* start dates run from 1 January to this many days later
MaxRuns == 2           \* applications of generatePaymentSchedule to the credit

StartDates == {Date(EpochYear, 1, 1) + k : k \in 0..MaxStartDay}
Terms == {1, 2, 3}                   \* CreateCreditDTO.Months, validate:"gt=0"
Principals == {1000, 2000}           \* CreateCreditDTO.Amount, validate:"gt=0"
ScheduleRates == {0, 12, 24}         \* percent a year

\* The credit Create builds at time `now` for a request of `months` months,
\* held by a goroutine that is about to generate its schedule; runs: the
\* times at which it has generated it.
ScheduleInputs ==
    {[op |-> "schedule", dto |-> dto, rate |-> rate,
      credit |-> NewCredit([rate |-> rate, dto |-> dto]), runs |-> <<>>] :
        dto \in [AccountID : {1}, UserID : {1}, Amount : Principals, Months : Terms],
        rate \in ScheduleRates}

InitSchedule ==
    /\ accounts \in [AccountIDs -> [Balance : InitBalances, HolderID : UserIDs]]
    /\ \A a \in AccountIDs : accounts[a].HolderID = HolderOf(a)
    /\ credits = <<>>
    /\ payments = <<>>
    /\ transactions = EmptyBag
    /\ now \in StartDates
    /\ emails = <<>>
    /\ debits = <<>>
    /\ overlaps = 0
    /\ pc = [p \in Procs |-> IF p = "h1" THEN "schedule" ELSE "idle"]
    /\ \E l \in ScheduleInputs : loc = [p \in Procs |-> IF p = "h1" THEN l ELSE NoLoc]
    /\ res = NoRes
    /\ InitServices

\* payments := s.generatePaymentSchedule(credit): the credit and the payments
\* returned are kept as rows; res.r tells what the annuity payment was (a
\* number, +Inf or NaN).
GenerateSchedule(p) ==
    /\ pc[p] = "schedule"
    /\ Len(loc[p].runs) < MaxRuns
    /\ LET credit   == loc[p].credit
           creditID == Len(credits) + 1
           schedule == generatePaymentSchedule(credit, creditID)
           annuityPayment == calculateAnnuityPayment(credit.Amount, credit.Rate,
                                                     ScheduleMonths(credit))
       IN  /\ credits' = Append(credits, credit)
           /\ payments' = payments \o schedule
           /\ debits' = debits \o [i \in 1..Len(schedule) |-> 0]
           /\ loc' = [loc EXCEPT ![p].runs = Append(@, now)]
           /\ res' = [op |-> "schedule", r |-> annuityPayment.kind,
                      txOpen |-> FALSE, notifyErr |-> FALSE]
    /\ UNCHANGED <<accounts, transactions, now, emails, overlaps, pc, svcvars>>

NextSchedule ==
    \/ GenerateSchedule("h1")
    \/ AdvanceTime

SpecSchedule == InitSchedule /\ [][NextSchedule]_vars

(***************************************************************************)
(* utils.Metrics.  Each method takes m.mu and releases it by a deferred    *)
(* Unlock, so the body of a method is one step, except where it calls      *)
(* another method of Metrics while it holds m.mu.  sync.RWMutex is not     *)
(* re-entrant: Lock waits until the mutex is unlocked, whoever holds it.   *)
(* The latency, the time stamps and ErrorTypes decide nothing and are left *)
(* out.                                                                    *)
(***************************************************************************)
MaxCount == 2

CardOperations == {"create", "block"}

MetricsCalls ==
    {[op |-> "RecordRequest", failed |-> e, operation |-> "none"] : e \in BOOLEAN}
    \cup {[op |-> "RecordCardOperation", failed |-> e, operation |-> o] :
            e \in BOOLEAN, o \in CardOperations}
    \cup {[op |-> o, failed |-> TRUE, operation |-> "none"] :
            o \in {"RecordError", "RecordCriticalError"}}
    \cup {[op |-> o, failed |-> FALSE, operation |-> "none"] :
            o \in {"GetMetricsSnapshot", "ResetMetrics"}}

\* A goroutine calls a method of Metrics and stands at its m.mu.Lock()
\* (m.mu.RLock() in GetMetricsSnapshot)
MetricsCall(p, call) ==
    /\ pc[p] = "idle"
    /\ call.op = "RecordRequest" => metrics.TotalRequests < MaxCount
    /\ call.op = "RecordCardOperation" =>
          metrics.TotalCards < MaxCount /\ metrics.BlockedCards < MaxCount
    /\ call.op = "RecordError" => metrics.ErrorCount < MaxCount
    /\ call.op = "RecordCriticalError" => metrics.CriticalErrors < MaxCount
    /\ pc' = [pc EXCEPT ![p] = call.op]
    /\ loc' = [loc EXCEPT ![p] = call]
    /\ res' = NoRes
    /\ UNCHANGED <<dbvars, now, emails, debits, overlaps, svcvars>>

\* The method of p returns, leaving the metrics as m (its deferred Unlock
\* has run)
MetricsReturn(p, m) ==
    /\ metrics' = [m EXCEPT !.mu = "unlocked"]
    /\ pc' = [pc EXCEPT ![p] = "idle"]
    /\ loc' = [loc EXCEPT ![p] = NoLoc]
    /\ res' = [op |-> loc[p].op, r |-> "ok", txOpen |-> FALSE, notifyErr |-> FALSE]
    /\ UNCHANGED <<dbvars, now, emails, debits, overlaps, limiter, allowed, cards>>

\* The method of p calls m.RecordError(err) with m.mu held, the metrics
\* being m: p stands at the m.mu.Lock() of RecordError
MetricsCallRecordError(p, m) ==
    /\ metrics' = [m EXCEPT !.mu = p]
    /\ pc' = [pc EXCEPT ![p] = "RecordError"]
    /\ UNCHANGED <<dbvars, now, emails, debits, overlaps, loc, res,
                   limiter, allowed, cards>>

RecordRequest(p) ==
    /\ pc[p] = "RecordRequest"
    /\ metrics.mu = "unlocked"
    /\ LET counted == [metrics EXCEPT !.TotalRequests = @ + 1]
       IN  IF loc[p].failed
           THEN MetricsCallRecordError(p, [counted EXCEPT !.FailedRequests = @ + 1])
           ELSE MetricsReturn(p, counted)

\* The switch on operation
CountCardOperation(m, operation) ==
    CASE operation = "create" ->
            [m EXCEPT !.TotalCards = @ + 1, !.ActiveCards = @ + 1]
      [] operation = "delete" ->
            [m EXCEPT !.TotalCards = @ - 1, !.ActiveCards = @ - 1]
      [] operation = "block" ->
            [m EXCEPT !.ActiveCards = @ - 1, !.BlockedCards = @ + 1]
      [] operation = "unblock" ->
            [m EXCEPT !.ActiveCards = @ + 1, !.BlockedCards = @ - 1]
      [] operation = "expire" ->
            [m EXCEPT !.ActiveCards = @ - 1, !.ExpiredCards = @ + 1]
      [] OTHER -> m

RecordCardOperation(p) ==
    /\ pc[p] = "RecordCardOperation"
    /\ metrics.mu = "unlocked"
    /\ LET counted == CountCardOperation(metrics, loc[p].operation)
       IN  IF loc[p].failed
           THEN MetricsCallRecordError(p, counted)
           ELSE MetricsReturn(p, counted)

\* RecordError, called from outside or from a method of Metrics; in the
\* second case the caller goes on to its own return
RecordError(p) ==
    /\ pc[p] = "RecordError"
    /\ metrics.mu = "unlocked"
    /\ MetricsReturn(p, [metrics EXCEPT !.ErrorCount = @ + 1])

RecordCriticalError(p) ==
    /\ pc[p] = "RecordCriticalError"
    /\ metrics.mu = "unlocked"
    /\ MetricsCallRecordError(p, [metrics EXCEPT !.CriticalErrors = @ + 1])

GetMetricsSnapshot(p) ==
    /\ pc[p] = "GetMetricsSnapshot"
    /\ metrics.mu = "unlocked"
    /\ MetricsReturn(p, metrics)

ResetMetrics(p) ==
    /\ pc[p] = "ResetMetrics"
    /\ metrics.mu = "unlocked"
    /\ MetricsReturn(p, NewMetrics)

\* What a goroutine does once it has called
MetricsStep(p) ==
    \/ RecordRequest(p)
    \/ RecordCardOperation(p)
    \/ RecordError(p)
    \/ RecordCriticalError(p)
    \/ GetMetricsSnapshot(p)
    \/ ResetMetrics(p)

NextMetrics ==
    \E p \in Handlers :
        \/ \E call \in MetricsCalls : MetricsCall(p, call)
        \/ RecordRequest(p)
        \/ RecordCardOperation(p)
        \/ RecordError(p)
        \/ RecordCriticalError(p)
        \/ GetMetricsSnapshot(p)
        \/ ResetMetrics(p)

SpecMetrics == Init /\ [][NextMetrics]_vars

\* The Go scheduler runs every goroutine that can run, and a goroutine
\* waiting for a mutex gets it once it stays unlocked
SpecMetricsFair == SpecMetrics /\ \A p \in Handlers : WF_vars(MetricsStep(p))

(***************************************************************************)
(* utils.RateLimiter.  Every method runs between rl.mu.Lock() and the      *)
(* deferred rl.mu.Unlock() and calls nothing that takes rl.mu, so its body *)
(* is one step; time.Now() is read inside it.  Time is counted in ticks.   *)
(***************************************************************************)
MaxTicks == 3

LimiterCalls == [op : {"Allow", "GetRemaining", "Reset"}, key : LimiterKeys]

\* A goroutine calls a method of the limiter and stands at its rl.mu.Lock()
LimiterCall(p, call) ==
    /\ pc[p] = "idle"
    /\ pc' = [pc EXCEPT ![p] = call.op]
    /\ loc' = [loc EXCEPT ![p] = call]
    /\ res' = NoRes
    /\ UNCHANGED <<dbvars, now, emails, debits, overlaps, svcvars>>

\* The method of p returns r
LimiterReturn(p, r) ==
    /\ pc' = [pc EXCEPT ![p] = "idle"]
    /\ loc' = [loc EXCEPT ![p] = NoLoc]
    /\ res' = [op |-> loc[p].op, r |-> r, txOpen |-> FALSE, notifyErr |-> FALSE]
    /\ UNCHANGED <<dbvars, now, emails, debits, overlaps, metrics, cards>>

\* requests[key], nil for a key the map does not hold
RequestsOf(requests, key) ==
    IF key \in DOMAIN requests THEN requests[key] ELSE <<>>

\* requests[key] = value
PutRequests(requests, key, value) ==
    [k \in DOMAIN requests \cup {key} |-> IF k = key THEN value ELSE requests[k]]

\* delete(requests, key)
DeleteRequests(requests, key) ==
    [k \in DOMAIN requests \ {key} |-> requests[k]]

\* The requests t with t.After(windowStart)
ValidRequests(requests, windowStart) ==
    SelectSeq(requests, LAMBDA t : t > windowStart)

LimitReachedOffByOne(requests, limit) == Len(requests) > limit

\* len(rl.requests[key]) >= rl.limit
LimitReached(requests, limit) == Len(requests) >= limit

Allow(p) ==
    /\ pc[p] = "Allow"
    /\ LET key == loc[p].key
           windowStart == now - limiter.window
           cleaned == IF key \in DOMAIN limiter.requests
                      THEN PutRequests(limiter.requests, key,
                               ValidRequests(limiter.requests[key], windowStart))
                      ELSE limiter.requests
       IN  IF LimitReached(RequestsOf(cleaned, key), limiter.limit)
           THEN /\ limiter' = [limiter EXCEPT !.requests = cleaned]
                /\ UNCHANGED allowed
                /\ LimiterReturn(p, FALSE)
           ELSE /\ limiter' = [limiter EXCEPT !.requests =
                       PutRequests(cleaned, key, Append(RequestsOf(cleaned, key), now))]
                /\ allowed' = [allowed EXCEPT ![key] = Append(@, now)]
                /\ LimiterReturn(p, TRUE)

\* Reset(key); the history of the key starts again
Reset(p) ==
    /\ pc[p] = "Reset"
    /\ limiter' = [limiter EXCEPT !.requests = DeleteRequests(@, loc[p].key)]
    /\ allowed' = [allowed EXCEPT ![loc[p].key] = <<>>]
    /\ LimiterReturn(p, "ok")

GetRemaining(p) ==
    /\ pc[p] = "GetRemaining"
    /\ LET windowStart == now - limiter.window
           validRequests == ValidRequests(RequestsOf(limiter.requests, loc[p].key),
                                          windowStart)
       IN  LimiterReturn(p, limiter.limit - Len(validRequests))
    /\ UNCHANGED <<limiter, allowed>>

\* The clock the limiter reads moves on
Tick ==
    /\ now < Date(EpochYear, 3, 1) + MaxTicks
    /\ now' = now + 1
    /\ UNCHANGED <<dbvars, emails, debits, overlaps, pc, loc, res, svcvars>>

NextLimiter ==
    \/ \E p \in Handlers :
        \/ \E call \in LimiterCalls : LimiterCall(p, call)
        \/ Allow(p)
        \/ Reset(p)
        \/ GetRemaining(p)
    \/ Tick

SpecLimiter == Init /\ [][NextLimiter]_vars

(***************************************************************************)
(* CardService.CreateCard.  generateCardNumber draws 15 digits from the    *)
(* clock: any digits; here the first, the second and all the others vary.  *)
(***************************************************************************)
PrefixLen == 15
MaxCards == 2

Digits == 0..9

CardPrefixes ==
    {[i \in 1..PrefixLen |-> IF i = 1 THEN a ELSE IF i = 2 THEN b ELSE c] :
        a \in Digits, b \in Digits, c \in Digits}

CardDTOs == [AccountID : BorrowerIDs, UserID : UserIDs]

\* The loop of generateCardNumber and of validateLuhn: the digits at even
\* positions, counted from 0, are doubled, and 9 is taken off a double
\* above 9.  number[k] is the digit at position k - 1.
RECURSIVE LuhnSum(_, _)
LuhnSum(number, k) ==
    IF k = 0 THEN 0
    ELSE LET digit   == number[k]
             doubled == IF 2 * digit > 9 THEN 2 * digit - 9 ELSE 2 * digit
         IN  LuhnSum(number, k - 1) + (IF (k - 1) % 2 = 0 THEN doubled ELSE digit)

\* generateCardNumber with number the digits it drew
generateCardNumber(number) ==
    LET sum        == LuhnSum(number, Len(number))
        checkDigit == (10 - (sum % 10)) % 10
    IN  Append(number, checkDigit)

validateLuhn(number) == LuhnSum(number, Len(number)) % 10 = 0

\* CreateCard up to cardNumber := s.generateCardNumber()
CreateCard(p, dto) ==
    /\ pc[p] = "idle"
    /\ Len(cards) < MaxCards
    /\ UNCHANGED <<dbvars, now, emails, debits>>
    /\ IF dto.AccountID \notin DOMAIN accounts
       THEN Return(p, "CreateCard", "NotFound")
       ELSE IF accounts[dto.AccountID].HolderID # dto.UserID
       THEN Return(p, "CreateCard", "NotOwner")
       ELSE \E number \in CardPrefixes :
               /\ pc' = [pc EXCEPT ![p] = "CreateCard"]
               /\ loc' = [loc EXCEPT ![p] = [op |-> "CreateCard", dto |-> dto,
                                             cardNumber |-> generateCardNumber(number)]]
               /\ res' = NoRes
               /\ UNCHANGED <<overlaps, svcvars>>

\* CreateCard from if s.validateLuhn(cardNumber): the error is returned
\* when the number passes the check; else the card is hashed, encrypted and
\* stored, any of which may fail
CreateCardStore(p) ==
    /\ pc[p] = "CreateCard"
    /\ UNCHANGED <<dbvars, now, emails, debits>>
    /\ IF validateLuhn(loc[p].cardNumber)
       THEN Return(p, "CreateCard", "LuhnError")
       ELSE \E failed \in BOOLEAN :
               IF failed
               THEN Return(p, "CreateCard", "StorageFailure")
               ELSE /\ cards' = Append(cards, [AccountID |-> loc[p].dto.AccountID,
                                               Number |-> loc[p].cardNumber])
                    /\ pc' = [pc EXCEPT ![p] = "idle"]
                    /\ loc' = [loc EXCEPT ![p] = NoLoc]
                    /\ res' = [op |-> "CreateCard", r |-> "ok",
                               txOpen |-> FALSE, notifyErr |-> FALSE]
                    /\ UNCHANGED <<overlaps, metrics, limiter, allowed>>

NextCard ==
    \/ \E dto \in CardDTOs : CreateCard("h1", dto)
    \/ CreateCardStore("h1")

SpecCard == Init /\ [][NextCard]_vars

(***************************************************************************)
(* Properties                                                              *)
(***************************************************************************)
InitialBalance == CHOOSE b \in InitBalances : TRUE

RECURSIVE SumAmounts(_, _)
SumAmounts(B, S) ==
    IF S = {} THEN 0
    ELSE LET t == CHOOSE x \in S : TRUE
         IN  t.Amount * CopiesIn(t, B) + SumAmounts(B, S \ {t})

\* The sum of the signed amounts of the Transaction records of account a
SumTx(a) == SumAmounts(transactions, {t \in BagToSet(transactions) : t.AccountID = a})

AccountOf(rows, creditRows, id) == creditRows[rows[id].CreditID].AccountID

\* Process p returns from `op` with result r in this step.
Returns(p, label, r) == pc[p] = label /\ pc'[p] = "idle" /\ res'.r = r

\* C1: every account's balance is its initial balance plus the sum of the
\* signed amounts of the Transaction records written for it.
C1_BalanceIsSumOfTransactions ==
    \A a \in AccountIDs : accounts[a].Balance = InitialBalance + SumTx(a)

\* C2 (a consequence of it that instalments of equal amounts do not disturb):
\* a PAID payment has at least one Transaction record of its account and
\* negated amount, and there are no more such records than PAID payments of
\* that account and amount.
PaidLike(id) ==
    {j \in DOMAIN payments :
        /\ payments[j].Status = "PAID"
        /\ payments[j].Amount = payments[id].Amount
        /\ AccountOf(payments, credits, j) = AccountOf(payments, credits, id)}

C2_OneTransactionPerPaidPayment ==
    \A id \in DOMAIN payments :
        payments[id].Status = "PAID" =>
            LET n == CopiesIn(Tx(AccountOf(payments, credits, id), -payments[id].Amount,
                                 "WITHDRAW"), transactions)
            IN  1 <= n /\ n <= Cardinality(PaidLike(id))

\* C3: under every interleaving each Payment is debited from the account at
\* most once.
C3_PaymentDebitedAtMostOnce == \A id \in DOMAIN debits : debits[id] <= 1

\* C4: a disbursement that commits after a payment was applied to the account
\* since it read the balance still raises the committed balance by the
\* disbursed amount, so the payment's debit is not lost.
C4_DisbursementLosesNoDebit ==
    [][\A p \in Handlers :
          (/\ Returns(p, "create_write", "ok")
           /\ accounts[loc[p].dto.AccountID].Balance < loc[p].account.Balance)
          => accounts'[loc[p].dto.AccountID].Balance
                 = accounts[loc[p].dto.AccountID].Balance + loc[p].dto.Amount]_vars

\* C5: no account has more than one credit with status ACTIVE.
C5_AtMostOneActiveCredit ==
    \A a \in AccountIDs : Cardinality(ActiveCredits(a)) <= 1

\* A second credit was created on an account, after the first stopped being
\* ACTIVE.
C5_Witness ==
    /\ Len(credits) = 2
    /\ credits[1].AccountID = credits[2].AccountID
    /\ credits[1].Status # "ACTIVE"
    /\ credits[2].Status = "ACTIVE"

\* C6: of two concurrent CreateCredit calls on an account at most one
\* succeeds: a credit is never committed for an account that holds an ACTIVE
\* credit.
C6_AtMostOneWinner ==
    [][\A p \in Handlers :
          Returns(p, "create_write", "ok") => ActiveCredits(loc[p].dto.AccountID) = {}]_vars

\* C7: CreateCredit is all-or-nothing: a call that returns without error has
\* committed the Credit row, all the Payment rows of its schedule, the balance
\* raised by amount and one Transaction record of +amount; a call that returns
\* an error, whatever write or Commit failed, has changed no row.
CreateCommitted(p) ==
    LET l == loc[p]
        credit == NewCredit(l)
        schedule == generatePaymentSchedule(credit, Len(credits) + 1)
    IN  /\ credits' = Append(credits, credit)
        /\ payments' = payments \o schedule
        /\ accounts' = [accounts EXCEPT ![l.dto.AccountID].Balance = @ + l.dto.Amount]
        /\ transactions' = transactions (+) SetToBag({Tx(l.dto.AccountID, l.dto.Amount, "DEPOSIT")})

C7_CreateAllOrNothing ==
    [][(res'.op = "create" /\ <<pc, loc, res>>' # <<pc, loc, res>>) =>
          IF res'.r = "ok"
          THEN \E p \in Procs : pc[p] = "create_write" /\ CreateCommitted(p)
          ELSE UNCHANGED dbvars]_vars

\* A write of Create, or its Commit, failed on an account that had no credit.
C7_Witness ==
    /\ res.op = "create" /\ res.r \in {"StorageFailure", "CommitFailure"}
    /\ credits = <<>>

\* C8 (a consequence of it): when the application of one payment of a batch
\* of two or more payments that all need a change fails, the other payments
\* of the batch are still applied, so some payment row of the batch changes.
C8_BatchSurvivesOneFailure ==
    [][\A p \in Tickers :
          (/\ Returns(p, "tick_write", "StorageFailure")
           /\ Cardinality(DOMAIN loc[p].batch) >= 2
           /\ \A i \in DOMAIN loc[p].batch : NeedsChange(loc[p].batch[i]))
          => \E i \in DOMAIN loc[p].batch : payments'[i] # payments[i]]_vars

\* C9: a successful PayCredit marks PAID exactly the PLANNED payment of the
\* credit with the earliest pay date, records the amount paid and the real
\* pay date on it, lowers the balance by the amount, writes one Transaction
\* record of -amount and leaves every other payment and account as it was.
C9_PayCreditEffect ==
    [][\A p \in Procs :
          Returns(p, "pay_write", "ok") =>
            LET dto == loc[p].dto
                planned == {i \in DOMAIN payments :
                               payments[i].CreditID = dto.CreditID
                               /\ payments[i].Status = "PLANNED"}
            IN  \E id \in planned :
                  /\ \A j \in planned \ {id} : payments[id].PayDate < payments[j].PayDate
                  /\ payments' = [payments EXCEPT ![id] =
                         [@ EXCEPT !.Status = "PAID", !.RealPayDate = now,
                                   !.Amount = dto.Amount]]
                  /\ accounts' = [accounts EXCEPT ![dto.AccountID].Balance = @ - dto.Amount]
                  /\ transactions' = transactions (+)
                         SetToBag({Tx(dto.AccountID, -dto.Amount, "WITHDRAW")})]_vars

\* An overpayment was accepted and the later payment of the credit is still
\* PLANNED with its due amount.
C9_Witness ==
    /\ res.op = "pay" /\ res.r = "ok"
    /\ \E i, j \in DOMAIN payments :
          /\ payments[i].CreditID = payments[j].CreditID
          /\ payments[i].Status = "PAID" /\ payments[i].Amount > payments[i].InitAmount
          /\ payments[j].Status = "PLANNED" /\ payments[j].Amount = payments[j].InitAmount
          /\ payments[i].PayDate < payments[j].PayDate

\* C10: a successful PayCredit sets the credit PAID and calls the notifier
\* exactly when the payment it applied was the last PLANNED payment of the
\* credit; otherwise the credit stays as it was (ACTIVE) and the notifier is
\* not called.  No PayCredit calls the notifier while another payment of the
\* credit is PLANNED.
C10_PayoffExactlyOnLastPayment ==
    [][\A p \in Procs :
          (pc[p] = "pay_write" /\ pc'[p] = "idle") =>
            LET c == loc[p].dto.CreditID
                last == Cardinality(PlannedPayments(payments, c)) = 1
            IN  /\ emails' # emails => last /\ emails' = Append(emails, c)
                /\ res'.r = "ok" =>
                      IF last
                      THEN /\ credits'[c].Status = "PAID"
                           /\ emails' = Append(emails, c)
                      ELSE /\ credits'[c].Status = "ACTIVE"
                           /\ credits' = credits
                           /\ emails' = emails]_vars

\* The last PLANNED payment was paid by hand: the credit is PAID and the
\* notifier was called for it.
C10_Witness ==
    /\ res.op = "pay" /\ res.r = "ok"
    /\ \E c \in DOMAIN credits :
          /\ credits[c].Status = "PAID"
          /\ \E k \in DOMAIN emails : emails[k] = c
          /\ PlannedPayments(payments, c) = {}

\* The due amount of the earliest PLANNED payment of a credit (none: {}).
NextDue(creditID) == {payments[i].Amount : i \in EarliestPlanned(creditID)}

\* Process p, inside PayCredit after the checks of the credit, takes a step.
PayChecks(p) == pc[p] \in {"pay_account", "pay_next"} /\ pc'[p] # pc[p]

\* C11: PayCredit with an amount below the due amount of the earliest
\* PLANNED payment fails with AmountTooLow and changes no row.
C11_AmountTooLowBelowDue ==
    [][\A p \in Procs :
          (PayChecks(p) /\ \E d \in NextDue(loc[p].dto.CreditID) : loc[p].dto.Amount < d)
          => /\ pc'[p] # "pay_write"
             /\ pc'[p] = "idle" => res'.r = "AmountTooLow" /\ UNCHANGED dbvars]_vars

\* C11, amended: when the balance covers the amount asked (else the call
\* fails with InsufficientFunds first), PayCredit with an amount below the
\* due amount fails with AmountTooLow and changes no row.
C11_AmountTooLowWhenFunded ==
    [][\A p \in Procs :
          (/\ PayChecks(p)
           /\ \E d \in NextDue(loc[p].dto.CreditID) : loc[p].dto.Amount < d
           /\ accounts[loc[p].dto.AccountID].Balance >= loc[p].dto.Amount)
          => /\ UNCHANGED dbvars
             /\ IF pc[p] = "pay_account"
                THEN pc'[p] = "pay_next"
                ELSE pc'[p] = "idle" /\ res'.r = "AmountTooLow"]_vars

\* A partial payment the balance covered was refused.
C11_Witness ==
    /\ res.op = "pay" /\ res.r = "AmountTooLow"
    /\ \E c \in DOMAIN credits, a \in PayAmounts :
          /\ credits[c].Status = "ACTIVE"
          /\ a <= accounts[credits[c].AccountID].Balance
          /\ \E d \in NextDue(c) : a < d

\* C12: PayCredit on an account whose balance is below the due amount of the
\* next payment fails with InsufficientFunds, whatever the amount asked, and
\* changes no row.
C12_InsufficientFundsBelowDue ==
    [][\A p \in Procs :
          (PayChecks(p) /\ \E d \in NextDue(loc[p].dto.CreditID) :
                             accounts[loc[p].dto.AccountID].Balance < d)
          => /\ pc'[p] # "pay_write"
             /\ pc'[p] = "idle" => res'.r = "InsufficientFunds" /\ UNCHANGED dbvars]_vars

\* C12, amended: PayCredit with an amount above the balance fails with
\* InsufficientFunds; on an account whose balance is below the due amount
\* every amount is refused, with InsufficientFunds when it exceeds the
\* balance and with AmountTooLow otherwise; no row changes.
C12_RefusedWhenBalanceBelowDue ==
    [][\A p \in Procs :
          PayChecks(p) =>
            LET l == loc[p]
                balance == accounts[l.dto.AccountID].Balance
            IN  /\ (pc[p] = "pay_account" /\ balance < l.dto.Amount)
                    => /\ pc'[p] = "idle" /\ res'.r = "InsufficientFunds"
                       /\ UNCHANGED dbvars
                /\ (\E d \in NextDue(l.dto.CreditID) : balance < d)
                    => /\ UNCHANGED dbvars
                       /\ pc'[p] # "pay_write"
                       /\ pc'[p] = "idle" =>
                             res'.r = IF balance < l.dto.Amount
                                      THEN "InsufficientFunds" ELSE "AmountTooLow"]_vars

\* A payment was refused for lack of funds on a credit whose next payment
\* the balance does not cover.
C12_Witness ==
    /\ res.op = "pay" /\ res.r = "InsufficientFunds"
    /\ \E c \in DOMAIN credits :
          /\ credits[c].Status = "ACTIVE"
          /\ \E d \in NextDue(c) : accounts[credits[c].AccountID].Balance < d

C14_CreateConflictAddsNothing ==
    [][\A p \in Procs :
          /\ (/\ pc[p] = "create_check" /\ pc'[p] # pc[p]
              /\ ActiveCredits(loc[p].dto.AccountID) # {})
             => pc'[p] = "idle" /\ res'.r = "Conflict" /\ UNCHANGED dbvars
          /\ (pc[p] = "idle" /\ (pc'[p] = "create_check" \/ res'.op = "create"))
             => \A dto \in CreateDTOs : CreateStart(p, dto) => UNCHANGED dbvars]_vars

\* A second Create on an account with an ACTIVE credit was refused.
C14_Witness ==
    /\ res.op = "create" /\ res.r = "Conflict"
    /\ Len(credits) = 1 /\ credits[1].Status = "ACTIVE"
    /\ Len(payments) = Cardinality(PlannedPayments(payments, 1))

(***************************************************************************)
(* The scheduler's ticks, seen from the committed rows                     *)
(***************************************************************************)
\* The payments of the batch ticker p loaded
Batch(p) == DOMAIN loc[p].batch

\* Ticker p ends its tick in this step; TickOk: without an error.
TickEnds(p) == pc[p] = "tick_write" /\ pc'[p] = "idle"
TickOk(p) == TickEnds(p) /\ res'.r = "ok"

\* The balance of payment i's account covers its due amount.
Covered(i) == accounts[AccountOf(payments, credits, i)].Balance >= payments[i].Amount

\* The balance of account a covers no payment of p's batch.
NoneCovered(p, a) ==
    \A j \in Batch(p) : AccountOf(payments, credits, j) = a => ~Covered(j)

\* This step leaves the balance and the Transaction records of account a alone.
AccountUntouched(a) ==
    /\ accounts'[a] = accounts[a]
    /\ \A t \in BagToSet(transactions') :
          t.AccountID = a => CopiesIn(t, transactions') = CopiesIn(t, transactions)

\* The payments of account a that p's tick turns PAID in this step
NewlyPaid(p, a) ==
    {i \in Batch(p) : /\ AccountOf(payments, credits, i) = a
                      /\ payments[i].Status # "PAID"
                      /\ payments'[i].Status = "PAID"}

RECURSIVE SumDue(_)
SumDue(S) ==
    IF S = {} THEN 0
    ELSE LET i == CHOOSE x \in S : TRUE
         IN  payments[i].Amount + SumDue(S \ {i})

\* C15: a tick that applies a PLANNED payment, not overdue before, whose
\* account balance is below its due amount makes the payment OVERDUE with
\* the flag set and its due amount raised by 10% (to the whole unit), makes
\* the credit OVERDUE, and leaves the balance and the Transaction records
\* of the account as they were.
C15_EscalationOfUnpaidPayment ==
    [][\A p \in Tickers :
          TickOk(p) =>
            \A i \in Batch(p) :
              (payments[i].Status = "PLANNED" /\ ~payments[i].IsOverdue /\ ~Covered(i))
              => /\ payments'[i] = [payments[i] EXCEPT !.Status = "OVERDUE",
                                                       !.IsOverdue = TRUE,
                                                       !.Amount = (11 * @) \div 10]
                 /\ credits'[payments[i].CreditID].Status = "OVERDUE"
                 /\ NoneCovered(p, AccountOf(payments, credits, i))
                      => AccountUntouched(AccountOf(payments, credits, i))]_vars

\* A due-payment tick escalated a payment: no record of a payment was
\* written.
C15_Witness ==
    /\ res.op = "tick" /\ res.r = "ok"
    /\ \E i \in DOMAIN payments :
          /\ payments[i].Status = "OVERDUE" /\ payments[i].IsOverdue
          /\ payments[i].Amount = (11 * payments[i].InitAmount) \div 10
          /\ credits[payments[i].CreditID].Status = "OVERDUE"
          /\ debits[i] = 0

\* C16: a tick that meets a payment already flagged overdue while the
\* balance is still below its due amount changes neither the payment nor
\* the credit, nor the balance and the records of the account, and a batch
\* of such payments alone reports no error of the routine.
C16_OverdueAndUnpaidIsSkipped ==
    [][\A p \in Tickers :
          TickEnds(p) =>
            /\ \A i \in Batch(p) :
                 (payments[i].IsOverdue /\ ~Covered(i))
                 => /\ payments'[i] = payments[i]
                    /\ credits'[payments[i].CreditID] = credits[payments[i].CreditID]
                    /\ NoneCovered(p, AccountOf(payments, credits, i))
                         => AccountUntouched(AccountOf(payments, credits, i))
            /\ (\A i \in Batch(p) : payments[i].IsOverdue /\ ~Covered(i))
                 => res'.r # "StorageFailure"]_vars

\* An overdue tick ran on a payment the balance does not cover and left it
\* unpaid.
C16_Witness ==
    /\ res.op = "overdue_tick" /\ res.r = "ok"
    /\ \E i \in DOMAIN payments :
          /\ payments[i].Status = "OVERDUE" /\ payments[i].IsOverdue
          /\ payments[i].RealPayDate = NULL
          /\ ~Covered(i)

\* C17: an overdue payment whose collection fails again on a later tick has
\* its due amount raised by the 10% penalty again.
C17_PenaltyCompounds ==
    [][\A p \in Tickers :
          TickOk(p) =>
            \A i \in Batch(p) :
              (payments[i].IsOverdue /\ ~Covered(i))
              => payments'[i].Amount = (11 * payments[i].Amount) \div 10]_vars

\* C17, amended: the penalty is applied once, when the payment becomes
\* overdue: the due amount of a payment flagged overdue is its original
\* amount raised by 10%, however many ticks have met it since, and that of
\* a PLANNED payment is its original amount.
C17_PenaltyAppliedOnce ==
    \A i \in DOMAIN payments :
        /\ payments[i].IsOverdue
             => payments[i].Amount = (11 * payments[i].InitAmount) \div 10
        /\ payments[i].Status = "PLANNED" => payments[i].Amount = payments[i].InitAmount

\* An overdue tick has met, a month or more after its pay date, a payment
\* that is still unpaid.
C17_Witness ==
    /\ res.op = "overdue_tick" /\ res.r = "ok"
    /\ \E i \in DOMAIN payments :
          /\ payments[i].Status = "OVERDUE"
          /\ now >= AddDate(payments[i].PayDate, 1)
          /\ ~Covered(i)

\* C18: a due-payment tick that applies a payment whose account balance
\* covers its due amount makes it PAID with the real pay date, writes a
\* Transaction of the negated due amount and leaves the credit as it was;
\* the balance of every account falls by the due amounts of the payments the
\* tick made PAID.
C18_DuePaymentDebitedExactly ==
    [][TickOk("regular") =>
          /\ \A i \in Batch("regular") :
               Covered(i)
               => /\ payments'[i] = [payments[i] EXCEPT !.Status = "PAID",
                                                        !.RealPayDate = now]
                  /\ BagIn(Tx(AccountOf(payments, credits, i), -payments[i].Amount,
                             "WITHDRAW"), transactions')
                  /\ (\A j \in Batch("regular") :
                          payments[j].CreditID = payments[i].CreditID => Covered(j))
                       => credits'[payments[i].CreditID] = credits[payments[i].CreditID]
          /\ \A a \in AccountIDs :
               accounts'[a].Balance = accounts[a].Balance - SumDue(NewlyPaid("regular", a))]_vars

\* C19: a due-payment tick applies the routine to every payment that is
\* PLANNED with a pay date not after now (each of them changes) and leaves
\* every other payment as it was.
C19_DueTickSelection ==
    [][TickOk("regular") =>
          \A i \in DOMAIN payments :
             IF payments[i].Status = "PLANNED" /\ payments[i].PayDate <= now
             THEN i \in Batch("regular") /\ payments'[i].Status \in {"PAID", "OVERDUE"}
             ELSE payments'[i] = payments[i]]_vars

\* A due-payment tick applied one payment of a credit and left the later
\* one, not yet due, PLANNED.
C19_Witness ==
    /\ res.op = "tick" /\ res.r = "ok"
    /\ \E i, j \in DOMAIN payments :
          /\ payments[i].CreditID = payments[j].CreditID
          /\ payments[i].Status # "PLANNED" /\ payments[i].PayDate <= now
          /\ debits[i] = 1 \/ payments[i].IsOverdue
          /\ payments[j].Status = "PLANNED" /\ payments[j].PayDate > now

\* C20: an overdue tick processes the payments flagged overdue with status
\* OVERDUE and no other; one whose account balance covers its current due
\* amount becomes PAID with that amount, a Transaction of the negated amount
\* is written, and the balance of every account falls by the current due
\* amounts of the payments the tick made PAID.
C20_OverdueTickDebitsExactly ==
    [][TickOk("overdue") =>
          /\ \A i \in DOMAIN payments :
               IF payments[i].IsOverdue /\ payments[i].Status = "OVERDUE"
               THEN /\ i \in Batch("overdue")
                    /\ Covered(i)
                         => /\ payments'[i] = [payments[i] EXCEPT !.Status = "PAID",
                                                                  !.RealPayDate = now]
                            /\ BagIn(Tx(AccountOf(payments, credits, i),
                                        -payments[i].Amount, "WITHDRAW"), transactions')
               ELSE payments'[i] = payments[i]
          /\ \A a \in AccountIDs :
               accounts'[a].Balance = accounts[a].Balance - SumDue(NewlyPaid("overdue", a))]_vars

\* The payments of credit c
PaymentsOf(rows, c) == {i \in DOMAIN rows : rows[i].CreditID = c}

\* C21: no tick of the scheduler sets a credit PAID: a tick that pays the
\* last outstanding payment of a credit (every payment of the credit is PAID
\* after it) leaves the credit row, its status included, as it was before.
C21_SchedulerNeverClosesCredit ==
    [][\A p \in Tickers :
          TickEnds(p) =>
            \A c \in DOMAIN credits :
              /\ credits'[c].Status = "PAID" => credits[c].Status = "PAID"
              /\ (/\ \E i \in Batch(p) : /\ payments[i].CreditID = c
                                         /\ payments[i].Status # "PAID"
                  /\ \A j \in PaymentsOf(payments', c) : payments'[j].Status = "PAID")
                 => credits'[c] = credits[c]]_vars

\* A due-payment tick has just paid the last outstanding payment of a
\* credit, and the credit is still ACTIVE.
C21_Witness ==
    /\ res.op = "tick" /\ res.r = "ok"
    /\ \E c \in DOMAIN credits :
          /\ credits[c].Status = "ACTIVE"
          /\ PaymentsOf(payments, c) # {}
          /\ \A j \in PaymentsOf(payments, c) : payments[j].Status = "PAID"
          /\ \E j \in PaymentsOf(payments, c) : payments[j].RealPayDate = now

\* C22: under every interleaving of Create, PayCredit and the ticks a credit
\* is created ACTIVE and its status changes only from ACTIVE to PAID, by a
\* PayCredit, or from ACTIVE to OVERDUE, by a tick: a PAID credit keeps its
\* status, an OVERDUE credit does not become ACTIVE (or PAID), and CANCELED
\* is never assigned.
C22_CreditStatusTransitions ==
    [][/\ \A c \in DOMAIN credits' \ DOMAIN credits : credits'[c].Status = "ACTIVE"
       /\ \A c \in DOMAIN credits :
            credits'[c].Status # credits[c].Status =>
              /\ credits[c].Status = "ACTIVE"
              /\ \/ /\ credits'[c].Status = "PAID"
                    /\ \E p \in Handlers : pc[p] = "pay_write" /\ pc'[p] = "idle"
                 \/ /\ credits'[c].Status = "OVERDUE"
                    /\ \E p \in Tickers : TickEnds(p)]_vars

\* C23: under every interleaving of PayCredit and the ticks a payment's
\* status changes only from PLANNED to PAID, from PLANNED to OVERDUE or from
\* OVERDUE to PAID, and a payment that is PAID keeps its status, its recorded
\* amount and its real pay date and is not debited again.
C23_PaymentStatusTransitions ==
    [][\A i \in DOMAIN payments :
          /\ payments'[i].Status # payments[i].Status
               => <<payments[i].Status, payments'[i].Status>>
                     \in {<<"PLANNED", "PAID">>, <<"PLANNED", "OVERDUE">>,
                          <<"OVERDUE", "PAID">>}
          /\ payments[i].Status = "PAID"
               => /\ payments'[i].Status = "PAID"
                  /\ payments'[i].Amount = payments[i].Amount
                  /\ payments'[i].RealPayDate = payments[i].RealPayDate
                  /\ debits'[i] = debits[i]]_vars

\* The annuity payment of credit row c, as Create computed it
AnnuityOf(c) == calculateAnnuityPayment(c.Amount, c.Rate, ScheduleMonths(c)).val

\* C24: the original amount of a payment never changes: in every state it is
\* the annuity payment computed when the credit was created, whatever
\* escalation, scheduled payment or manual payment (overpayment included)
\* did to the due amount, and no step changes it.
C24_InitAmountPreserved ==
    /\ [](\A i \in DOMAIN payments :
             payments[i].InitAmount = AnnuityOf(credits[payments[i].CreditID]))
    /\ [][\A i \in DOMAIN payments :
             payments'[i].InitAmount = payments[i].InitAmount]_vars

\* One payment of a credit was overpaid by hand and another was escalated
\* by a tick: the due amounts of both differ from the original amount.
C24_Witness ==
    \E i, j \in DOMAIN payments :
        /\ payments[i].CreditID = payments[j].CreditID
        /\ payments[i].Status = "PAID" /\ payments[i].Amount > payments[i].InitAmount
        /\ payments[j].IsOverdue /\ payments[j].Amount > payments[j].InitAmount

\* C25: a PayCredit that pays the last PLANNED payment and whose notifier
\* returns an error fails only if Commit itself fails; otherwise it succeeds
\* with everything committed: the payment PAID, the credit PAID, the balance
\* lowered by the amount and the Transaction of the payment written.
C25_NotifierErrorNotPropagated ==
    [][\A p \in Procs :
          (pc[p] = "pay_write" /\ pc'[p] = "idle" /\ res'.notifyErr) =>
            LET l == loc[p]
            IN  /\ Cardinality(PlannedPayments(payments, l.dto.CreditID)) = 1
                /\ emails' = Append(emails, l.dto.CreditID)
                /\ res'.r \in {"ok", "CommitFailure"}
                /\ res'.r = "CommitFailure" => UNCHANGED dbvars
                /\ res'.r = "ok" =>
                     /\ payments'[l.nextPaymentID].Status = "PAID"
                     /\ credits'[l.dto.CreditID].Status = "PAID"
                     /\ accounts'[l.dto.AccountID].Balance
                            = accounts[l.dto.AccountID].Balance - l.dto.Amount
                     /\ transactions' = transactions (+)
                            SetToBag({Tx(l.dto.AccountID, -l.dto.Amount, "WITHDRAW")})]_vars

\* The payoff of a credit was committed although the notifier had failed.
C25_Witness ==
    /\ res.op = "pay" /\ res.r = "ok" /\ res.notifyErr
    /\ \E c \in DOMAIN credits :
          /\ credits[c].Status = "PAID"
          /\ emails # <<>> /\ emails[Len(emails)] = c
          /\ PlannedPayments(payments, c) = {}
          /\ \E i \in PaymentsOf(payments, c) : debits[i] = 1 /\ payments[i].RealPayDate = now

(***************************************************************************)
(* The schedule generatePaymentSchedule returns                            *)
(***************************************************************************)
\* The payments generated for credit c, in the order of the schedule
ScheduleOf(c) == SelectSeq(payments, LAMBDA r : r.CreditID = c)

\* The goroutine that generated schedules, if any
Generators == {p \in Procs : loc[p].op = "schedule"}

\* C26: the schedule generated for a credit asked for T months has exactly
\* T payments, whatever the start date.
C26_ScheduleHasTermPayments ==
    \A p \in Generators, c \in DOMAIN credits :
        Len(ScheduleOf(c)) = loc[p].dto.Months

\* C27: every payment of a schedule just generated is PLANNED, has no real
\* pay date, is not flagged overdue and is due its original amount; payment
\* i (from 0) is due at the start date plus i+1 months, and the pay dates
\* increase strictly.
C27_FreshScheduleRows ==
    \A p \in Generators, c \in DOMAIN credits :
        LET schedule == ScheduleOf(c)
        IN  /\ \A k \in DOMAIN schedule :
                 /\ schedule[k].Status = "PLANNED"
                 /\ schedule[k].RealPayDate = NULL
                 /\ schedule[k].IsOverdue = FALSE
                 /\ schedule[k].Amount = schedule[k].InitAmount
                 /\ schedule[k].PayDate = AddDate(credits[c].StartDate, k)
            /\ \A k \in DOMAIN schedule \ {1} :
                 schedule[k - 1].PayDate < schedule[k].PayDate

\* A schedule of three payments was generated for a credit that starts on
\* 31 January, where no later month has a day of that number until March.
C27_Witness ==
    /\ res.op = "schedule"
    /\ \E c \in DOMAIN credits :
          /\ credits[c].StartDate = Date(EpochYear, 1, 31)
          /\ Len(ScheduleOf(c)) = 3

\* C28: the annuity computation treats its degenerate inputs apart: with a
\* term of no month it fails with InvalidTerm and nothing is generated; else
\* the payment is a number, with rate 0 the principal divided by the term,
\* and the schedule is not empty.
C28_DegenerateInputsSpecialCased ==
    \A p \in Generators, c \in DOMAIN credits :
        LET months == ScheduleMonths(credits[c])
        IN  IF months <= 0
            THEN res.r = "InvalidTerm"
            ELSE /\ res.r = "num"
                 /\ ScheduleOf(c) # <<>>
                 /\ credits[c].Rate = 0 =>
                       \A k \in DOMAIN ScheduleOf(c) :
                           ScheduleOf(c)[k].Amount = credits[c].Amount \div months

\* A payment row without the id of its credit
Unowned(r) == [f \in DOMAIN r \ {"CreditID"} |-> r[f]]

RECURSIVE RemainingNum(_, _, _, _)
RemainingNum(credit, schedule, rate, n) ==
    IF n = 0 THEN credit.Amount
    ELSE RemainingNum(credit, schedule, rate, n - 1) * (rate.rd + rate.rn)
           - schedule[n].Amount * Pow(rate.rd, n)

\* remainingAmount after the last payment, in whole units
RemainingAmount(credit, schedule) ==
    LET g    == Gcd(credit.Rate, 1200)
        rate == [rn |-> credit.Rate \div g, rd |-> 1200 \div g]
    IN  RemainingNum(credit, schedule, rate, Len(schedule)) \div Pow(rate.rd, Len(schedule))

\* A unit for each payment, each being truncated to the whole unit, and one
\* for the remainder
Tolerance(schedule) == Len(schedule) + 1

\* C30: the principal portions of a generated schedule sum to the principal
\* within the rounding tolerance: what remains of the principal after the
\* last payment is about 0.
C30_PrincipalPortionsSumToPrincipal ==
    \A p \in Generators, c \in DOMAIN credits :
        LET remaining == RemainingAmount(credits[c], ScheduleOf(c))
        IN  /\ remaining <= Tolerance(ScheduleOf(c))
            /\ -remaining <= Tolerance(ScheduleOf(c))

\* The payments of p's batch that are charged to account a
BatchOn(p, a) == {i \in Batch(p) : AccountOf(payments, credits, i) = a}

\* C31: when the batch of a tick holds two or more payments charged to one
\* account, each is checked against and debited from the balance the
\* earlier ones left: the payments the tick makes PAID never add up to more
\* than the balance, and the balance falls by exactly their sum.
C31_BatchUsesRunningBalance ==
    [][\A p \in Tickers, a \in AccountIDs :
          (TickOk(p) /\ Cardinality(BatchOn(p, a)) >= 2)
          => /\ SumDue(NewlyPaid(p, a)) <= accounts[a].Balance
             /\ accounts'[a].Balance = accounts[a].Balance - SumDue(NewlyPaid(p, a))]_vars

\* Every payment of every credit of account a is PAID.
FullyCollected(a) ==
    \A c \in DOMAIN credits :
        credits[c].AccountID = a =>
            \A i \in PaymentsOf(payments, c) : payments[i].Status = "PAID"

\* C32: once every payment of the credits of an account is PAID, by manual
\* payments or by ticks, a Create on the account by its holder is not
\* refused with Conflict.
C32_CollectedCreditDoesNotBlock ==
    [][\A p \in Procs :
          (/\ pc[p] = "create_check" /\ pc'[p] # pc[p]
           /\ FullyCollected(loc[p].dto.AccountID))
          => pc'[p] = "create_write"]_vars

\* The credits a notification was sent for in this step
Notified == {emails'[k] : k \in (DOMAIN emails') \ (DOMAIN emails)}

\* C33: a credit-paid notification is sent only for a credit whose change
\* to PAID is committed (none is sent by a PayCredit whose Commit fails),
\* and no credit is notified of twice.
C33_NotificationOnlyWhenCommitted ==
    [][\A c \in Notified :
          /\ credits'[c].Status = "PAID"
          /\ res'.r = "ok"
          /\ \A k \in DOMAIN emails : emails[k] # c]_vars

\* C34: in sequential runs a payment with status OVERDUE has its overdue
\* flag set, a PLANNED payment has it clear, and a credit is OVERDUE exactly
\* when some payment of it has the flag set.
C34_OverdueFlagsAgree ==
    /\ \A i \in DOMAIN payments :
          /\ payments[i].Status = "OVERDUE" => payments[i].IsOverdue
          /\ payments[i].Status = "PLANNED" => ~payments[i].IsOverdue
    /\ \A c \in DOMAIN credits :
          credits[c].Status = "OVERDUE"
              <=> \E i \in PaymentsOf(payments, c) : payments[i].IsOverdue

\* An overdue payment was collected by the overdue tick: it is PAID with the
\* flag still set, and its credit is still OVERDUE.
C34_Witness ==
    /\ res.op = "overdue_tick" /\ res.r = "ok"
    /\ \E i \in DOMAIN payments :
          /\ payments[i].Status = "PAID" /\ payments[i].IsOverdue
          /\ payments[i].RealPayDate = now
          /\ credits[payments[i].CreditID].Status = "OVERDUE"

\* C35: no interleaving of Create, PayCredit and the ticks makes the balance
\* of an account negative.
C35_BalanceNeverNegative == \A a \in AccountIDs : accounts[a].Balance >= 0

\* Calls overlapped, and the Transaction records of an account take more
\* from it than it ever held, while its balance is not negative.
C35_Witness ==
    /\ overlaps > 0
    /\ \E a \in AccountIDs :
          /\ InitialBalance + SumTx(a) < 0
          /\ accounts[a].Balance >= 0

\* C37: Transfer is atomic and conserves money: a call that succeeds lowers
\* the balance of the source and raises that of the destination by the
\* amount, and a call that fails, at whatever point (a destination that does
\* not exist included), leaves every balance as it was.
C37_TransferAtomic ==
    [][\A request \in TransferRequests :
          (res'.op = "transfer" /\ Transfer("h1", request)) =>
            IF res'.r = "ok"
            THEN accounts' = [accounts EXCEPT
                                 ![request.SourceID].Balance = @ - request.Amount,
                                 ![request.DestinationID].Balance = @ + request.Amount]
            ELSE accounts' = accounts]_vars

\* C36: every return of Create, PayCredit and the ticks has ended the
\* transaction the call began: the call that returned last left none open.
C36_NoOpenTransactionOnReturn ==
    res.op \in {"create", "pay", "tick", "overdue_tick"} => ~res.txOpen

\* C38: every call on Metrics returns: a goroutine that has called a method
\* of Metrics (RecordRequest or RecordCardOperation with an error,
\* RecordCriticalError, or any other) is eventually back from it, so the
\* mutex is released and later calls proceed.
C38_EveryMetricsCallReturns ==
    \A p \in Handlers : (pc[p] # "idle") ~> (pc[p] = "idle")

\* C39: for every key, of the Allow(key) calls that returned true since the
\* last Reset(key), at most limit have their time stamps in a span of length
\* window (the span that ends at any of them and is open at its start, as
\* the limiter's own window is); and GetRemaining returns a number between
\* 0 and limit.
C39_AtMostLimitPerWindow ==
    /\ \A key \in LimiterKeys : \A i \in DOMAIN allowed[key] :
          Cardinality({j \in DOMAIN allowed[key] :
                          /\ allowed[key][j] > allowed[key][i] - limiter.window
                          /\ allowed[key][j] <= allowed[key][i]}) <= limiter.limit
    /\ res.op = "GetRemaining" => res.r \in 0..limiter.limit

\* An Allow was refused for a key that is at its limit, after more than limit
\* calls for it had been allowed in earlier windows
C39_Witness ==
    /\ res.op = "Allow" /\ res.r = FALSE
    /\ \E key \in LimiterKeys :
          /\ Len(allowed[key]) > limiter.limit
          /\ Len(RequestsOf(limiter.requests, key)) = limiter.limit

\* C39 as stated, "any interval of length window" taken with both its ends:
\* two time stamps exactly window apart lie in one such interval
C39_AtMostLimitPerClosedWindow ==
    /\ \A key \in LimiterKeys : \A i \in DOMAIN allowed[key] :
          Cardinality({j \in DOMAIN allowed[key] :
                          /\ allowed[key][j] >= allowed[key][i] - limiter.window
                          /\ allowed[key][j] <= allowed[key][i]}) <= limiter.limit
    /\ res.op = "GetRemaining" => res.r \in 0..limiter.limit

\* C40: CreateCard does not fail with the Luhn validation error: the number
\* generateCardNumber made for an existing account of the requester is let
\* through by the check in CreateCard.
C40_GeneratedNumberAccepted ==
    res.op = "CreateCard" => res.r # "LuhnError"

====
